---- MODULE Spec2Model ----
(***************************************************************************)
(* InsightLens: the CSV analysis engine (class DataAnalyzer) and the way   *)
(* the host creates and runs analyzers.                                     *)
(*                                                                         *)
(* A text is a sequence of tokens.  A token is one of the characters the   *)
(* tokenizer looks at (newline, comma, double quote, blank) or an atom: a  *)
(* maximal run of other characters, written as a TLA+ string.  A parsed    *)
(* cell is the concatenation of the atoms and characters of its field, so  *)
(* cells and column names are TLA+ strings and "" is the empty cell.       *)
(***************************************************************************)
EXTENDS Integers, Sequences, FiniteSets, TLC

VARIABLES
    rawData,          \* analyzer -> the text given to its constructor
    columns,          \* analyzer -> this.columns
    data,             \* analyzer -> this.data (a sequence of rows)
    pc,               \* analyzer -> where its construction / analysis stands
    result,           \* analyzer -> <<>> or <<the AnalysisResult it resolved with>>
    error,            \* analyzer -> <<>> or <<the message of the error it raised>>
    legacyDateParse,  \* the engine's Date.parse accepts non-ISO strings (implementation-defined)
    computed,         \* analyzer -> the parts of its result computed so far
    isLoading,        \* App state: the loading flag
    appAnalysisResult, \* App state `analysisResult`: <<>> (null) or <<the result held>>
    appError,         \* App state `error`: <<>> (null) or <<the message shown>>
    uploadedFile,     \* App state: <<>> (null) or <<the DataFile held>>
    uploadStatus,     \* FileUpload state: "idle", "valid" or "error"
    errorMessage,     \* FileUpload state: the message of its error state
    file,             \* upload -> <<>> or <<the File dropped>>
    upload,           \* upload -> where its drop / handleFileUpload call stands
    handOffs,         \* the uploads whose 500 ms hand-off timer is pending, in firing order
    analysisTimers,   \* the uploads whose 2000 ms analysis timer is pending, in firing order
    resultFrom,       \* <<>> or <<the upload whose analysis produced the result held>>
    errorFrom         \* <<>> or <<the upload whose failure produced appError>>

engineVars == <<rawData, columns, data, pc, result, error, legacyDateParse>>

hostVars ==
    <<isLoading, appAnalysisResult, appError, uploadedFile, uploadStatus, errorMessage, file,
      upload, handOffs, analysisTimers, resultFrom, errorFrom>>

vars == <<engineVars, computed, hostVars>>

Analyzers == {"a1", "a2"}

(***************************************************************************)
(* Characters and generic sequence helpers.                                *)
(***************************************************************************)
NL == "\n"
COMMA == ","
QUOTE == "\""
SP == " "

IsSpace(t) == t \in {SP, NL, "\r", "\t"}

RECURSIVE SumSeq(_)
SumSeq(s) == IF s = <<>> THEN 0 ELSE Head(s) + SumSeq(Tail(s))

Range(s) == {s[i] : i \in DOMAIN s}

MinOf(S) == CHOOSE m \in S : \A x \in S : m <= x
MaxOf(S) == CHOOSE m \in S : \A x \in S : m >= x

(* String.prototype.trim on a token sequence *)
RECURSIVE TrimLeft(_)
TrimLeft(s) == IF s # <<>> /\ IsSpace(Head(s)) THEN TrimLeft(Tail(s)) ELSE s

RECURSIVE TrimRight(_)
TrimRight(s) ==
    IF s # <<>> /\ IsSpace(s[Len(s)]) THEN TrimRight(SubSeq(s, 1, Len(s) - 1)) ELSE s

Trim(s) == TrimRight(TrimLeft(s))

(* replace(/"/g, '') *)
StripQuotes(s) == SelectSeq(s, LAMBDA t : t # QUOTE)

(* the string a token sequence spells *)
RECURSIVE Join(_)
Join(s) == IF s = <<>> THEN "" ELSE Head(s) \o Join(Tail(s))

(* String.prototype.split(sep): "" splits into one empty piece *)
RECURSIVE SplitFrom(_, _, _)
SplitFrom(s, sep, cur) ==
    IF s = <<>> THEN <<cur>>
    ELSE IF Head(s) = sep THEN <<cur>> \o SplitFrom(Tail(s), sep, <<>>)
    ELSE SplitFrom(Tail(s), sep, Append(cur, Head(s)))

Split(s, sep) == SplitFrom(s, sep, <<>>)

(* String.prototype.length of a text *)
RECURSIVE TextLength(_)
TextLength(s) == IF s = <<>> THEN 0 ELSE Len(Head(s)) + TextLength(Tail(s))

(***************************************************************************)
(* DataAnalyzer.parseCSVLine and DataAnalyzer.parseCSV                     *)
(***************************************************************************)
Field(current) == Join(StripQuotes(Trim(current)))

RECURSIVE parseCSVLineFrom(_, _, _, _)
parseCSVLineFrom(line, i, current, inQuotes) ==
    IF i > Len(line) THEN <<Field(current)>>
    ELSE IF line[i] = QUOTE THEN parseCSVLineFrom(line, i + 1, current, ~inQuotes)
    ELSE IF line[i] = COMMA /\ ~inQuotes
         THEN <<Field(current)>> \o parseCSVLineFrom(line, i + 1, <<>>, inQuotes)
    ELSE parseCSVLineFrom(line, i + 1, Append(current, line[i]), inQuotes)

(* the tokenizer with the slip of splitting at every comma *)
parseCSVLinePlain(line) ==
    LET parts == Split(line, COMMA)
    IN  [k \in 1..Len(parts) |-> Field(parts[k])]

parseCSVLine(line) == parseCSVLineFrom(line, 1, <<>>, FALSE)

Lines(csvData) == Split(Trim(csvData), NL)

MalformedMessage == "CSV file must have at least header and one data row"

(* the guard with the slip of accepting a lone header line *)
parseThrowsHeaderOnly(csvData) == Len(Lines(csvData)) < 1

parseThrows(csvData) == Len(Lines(csvData)) < 2

parseHeader(csvData) ==
    LET parts == Split(Lines(csvData)[1], COMMA)
    IN  [k \in 1..Len(parts) |-> Join(StripQuotes(Trim(parts[k])))]

(* the row with the slip of filling a missing position with the line's last field *)
makeRowRepeatLast(cols, values) ==
    [c \in Range(cols) |->
        LET last == MaxOf({k \in DOMAIN cols : cols[k] = c})
        IN  IF last <= Len(values) THEN values[last] ELSE values[Len(values)]]

(* row[col] = values[index] || '' for every column in order: a repeated    *)
(* name keeps the value of its last position                               *)
makeRow(cols, values) ==
    [c \in Range(cols) |->
        LET last == MaxOf({k \in DOMAIN cols : cols[k] = c})
        IN  IF last <= Len(values) THEN values[last] ELSE ""]

(* the rows with the slip of skipping blank lines *)
parseRowsSkipBlank(csvData) ==
    LET lines == SelectSeq(Lines(csvData), LAMBDA l : Trim(l) # <<>>)
        cols == parseHeader(csvData)
    IN  [r \in 1..(Len(lines) - 1) |-> makeRow(cols, parseCSVLine(lines[r + 1]))]

parseRows(csvData) ==
    LET lines == Lines(csvData)
        cols == parseHeader(csvData)
    IN  [r \in 1..(Len(lines) - 1) |-> makeRow(cols, parseCSVLine(lines[r + 1]))]

(***************************************************************************)
(* What the JavaScript conversions do on the cells and names of the model. *)
(* Every string the tables do not list is a word without digits: it is no  *)
(* number, no date and starts with no keyword.                             *)
(***************************************************************************)
(* parseFloat: the number spelled by the longest numeric prefix, else NaN  *)
(* (<<>>).  An ISO date starts with its year.                              *)
FloatTable ==
    { <<"10", 10>>, <<"20", 20>>, <<"30", 30>>,
      <<"2024-01-01", 2024>>, <<"2024-01-02", 2024>>, <<"2024-01-01T12:00:00Z", 2024>> }

parseFloat(v) ==
    LET hits == {p \in FloatTable : p[1] = v}
    IN  IF hits = {} THEN <<>> ELSE <<(CHOOSE p \in hits : TRUE)[2]>>

isNaN(x) == x = <<>>

(* the global isFinite(v): Number(v) is a finite number; Number reads the  *)
(* whole string, and Number("") is 0                                       *)
isFinite(v) == v \in {"", "10", "20", "30"}

(* Date.parse and new Date(v).toISOString().split('T')[0].  ISO strings    *)
(* are read as UTC by every engine.  A bare number is read by the engine's *)
(* own fallback: V8 takes "10" for October 1st 2001 and rejects a month    *)
(* above 12; an engine without the fallback rejects all three.             *)
IsoDayTable ==
    { <<"2024-01-01", "2024-01-01">>, <<"2024-01-02", "2024-01-02">>,
      <<"2024-01-01T12:00:00Z", "2024-01-01">> }

LegacyDayTable == { <<"10", "2001-10-01">> }

DayTable == IsoDayTable \cup (IF legacyDateParse THEN LegacyDayTable ELSE {})

DateParses(v) == \E p \in DayTable : p[1] = v

DayKey(v) == (CHOOSE p \in DayTable : p[1] = v)[2]

(* the day keys of the model in the order Array.prototype.sort gives       *)
(* strings (by code unit)                                                  *)
DayKeyOrder == <<"2001-10-01", "2024-01-01", "2024-01-02">>

DayKeyRank(k) == CHOOSE i \in DOMAIN DayKeyOrder : DayKeyOrder[i] = k

(* a property key that is a canonical array index: Object.entries lists    *)
(* these first, in ascending numeric order                                 *)
IsArrayIndex(v) == v \in {"10", "20", "30"}

toLowerCase(name) ==
    CASE name = "Amount" -> "amount"
      [] name = "Date" -> "date"
      [] name = "b.CSV" -> "b.csv"
      [] OTHER -> name

(* the keyword a lower-cased name starts with, "" when it starts with none *)
LeadingKeyword(lowerName) ==
    CASE lowerName \in {"amount"} -> "amount"
      [] lowerName \in {"value"} -> "value"
      [] lowerName \in {"total_sales"} -> "total"
      [] lowerName \in {"customer_id"} -> "customer"
      [] lowerName \in {"id"} -> "id"
      [] lowerName \in {"date"} -> "date"
      [] OTHER -> ""

(* the relevance keywords with the slip of leaving out the date keyword *)
RelevantPrefixesNoDate ==
    {"amount", "price", "cost", "revenue", "sales", "total", "customer", "client",
     "user", "id", "time", "created", "updated"}

RelevantPrefixes ==
    {"amount", "price", "cost", "revenue", "sales", "total", "customer", "client",
     "user", "id", "date", "time", "created", "updated"}
RevenuePrefixes == {"amount", "price", "cost", "revenue", "sales", "total", "value"}
(* the customer keywords with the slip of leaving out the first *)
CustomerPrefixesShort == {"client", "user", "id"}
CustomerPrefixes == {"customer", "client", "user", "id"}
DatePrefixes == {"date", "time", "created", "updated"}

(* Number.prototype.toLocaleString (en-US grouping) of a natural number below a million *)
Pad3(n) == (IF n < 10 THEN "00" ELSE IF n < 100 THEN "0" ELSE "") \o ToString(n)

toLocaleString(n) ==
    IF n < 1000 THEN ToString(n) ELSE ToString(n \div 1000) \o "," \o Pad3(n % 1000)

(***************************************************************************)
(* DataAnalyzer.detectColumnType                                           *)
(***************************************************************************)
NumericNum == 8
NumericDen == 10
CategoryNum == 5
CategoryDen == 10

nonEmptyOf(values) == SelectSeq(values, LAMBDA v : v # "")

numericOf(values) ==
    SelectSeq(nonEmptyOf(values), LAMBDA v : ~isNaN(parseFloat(v)) /\ isFinite(v))

dateOf(values) == SelectSeq(nonEmptyOf(values), LAMBDA v : DateParses(v))

(* values.length - nonEmptyValues.length, with the slip of counting distinct values first *)
nullCountByUnique(values) == Len(values) - Cardinality(Range(nonEmptyOf(values)))

nullCountOf(values) == Len(values) - Len(nonEmptyOf(values))

(* the numeric test with the slip of sampling only the first non-empty value *)
isNumericBySample(values) ==
    LET sample == nonEmptyOf(values)
    IN  sample # <<>> /\ ~isNaN(parseFloat(sample[1])) /\ isFinite(sample[1])

(* x.length > n.length * 0.8 *)
isNumericColumn(values) ==
    Len(numericOf(values)) * NumericDen > Len(nonEmptyOf(values)) * NumericNum

isDateTimeColumn(values) ==
    Len(dateOf(values)) * NumericDen > Len(nonEmptyOf(values)) * NumericNum

(* the role with the slip of testing the values before the name *)
businessTypeStatFirst(columnName, values) ==
    LET kw == LeadingKeyword(toLowerCase(columnName))
        uniqueValues == Cardinality(Range(nonEmptyOf(values)))
    IN  IF ~isNumericColumn(values)
           /\ uniqueValues * CategoryDen < Len(nonEmptyOf(values)) * CategoryNum
        THEN "category"
        ELSE IF isNumericColumn(values) THEN "quantity"
        ELSE IF kw \in RevenuePrefixes THEN "revenue"
        ELSE IF kw \in CustomerPrefixes THEN "customer"
        ELSE IF kw \in DatePrefixes THEN "date"
        ELSE "undefined"

businessTypeOf(columnName, values) ==
    LET kw == LeadingKeyword(toLowerCase(columnName))
        uniqueValues == Cardinality(Range(nonEmptyOf(values)))
    IN  IF kw \in RevenuePrefixes THEN "revenue"
        ELSE IF kw \in CustomerPrefixes THEN "customer"
        ELSE IF kw \in DatePrefixes THEN "date"
        ELSE IF ~isNumericColumn(values)
                /\ uniqueValues * CategoryDen < Len(nonEmptyOf(values)) * CategoryNum
             THEN "category"
        ELSE IF isNumericColumn(values) /\ kw \notin RevenuePrefixes THEN "quantity"
        ELSE "undefined"

detectColumnType(columnName, values) ==
    [ name |-> columnName,
      type |-> IF isNumericColumn(values) THEN "numeric"
               ELSE IF isDateTimeColumn(values) THEN "datetime" ELSE "categorical",
      uniqueValues |-> Cardinality(Range(nonEmptyOf(values))),
      nullCount |-> nullCountOf(values),
      isBusinessRelevant |-> LeadingKeyword(toLowerCase(columnName)) \in RelevantPrefixes,
      businessType |-> businessTypeOf(columnName, values) ]

(***************************************************************************)
(* DataAnalyzer.getDataOverview                                            *)
(***************************************************************************)
BytesPerKB == 1024

columnValues(cols, rows, k) == [r \in DOMAIN rows |-> rows[r][cols[k]]]

columnInfos(cols, rows) ==
    [k \in DOMAIN cols |-> detectColumnType(cols[k], columnValues(cols, rows, k))]

(* Math.round(n / d) for naturals: halves round up *)
RoundDiv(n, d) == (2 * n + d) \div (2 * d)

getDataOverview(cols, rows, raw) ==
    LET infos == columnInfos(cols, rows)
    IN  [ totalRows |-> Len(rows),
          totalColumns |-> Len(cols),
          columns |-> infos,
          missingValues |-> SumSeq([k \in DOMAIN infos |-> infos[k].nullCount]),
          duplicateRows |-> Len(rows) - Cardinality(Range(rows)),
          memoryUsage |-> ToString(RoundDiv(TextLength(raw), BytesPerKB)) \o " KB" ]

(***************************************************************************)
(* DataAnalyzer.generateMetrics                                            *)
(***************************************************************************)
RECURSIVE GCD(_, _)
GCD(a, b) == IF b = 0 THEN a ELSE GCD(b, a % b)

(* a metric value is a number: n / d, d > 0, as a fraction in lowest terms *)
Ratio(n, d) == LET g == GCD(n, d) IN [num |-> n \div g, den |-> d \div g]

Num(n) == Ratio(n, 1)

isRevenueColumn(col) ==
    \/ col.businessType = "revenue"
    \/ col.type = "numeric" /\ LeadingKeyword(toLowerCase(col.name)) \in RevenuePrefixes

(* rows.map(row => parseFloat(row[name])).filter(v => !isNaN(v)) *)
parsedValues(rows, name) ==
    LET parsed == [r \in DOMAIN rows |-> parseFloat(rows[r][name])]
        kept == SelectSeq(parsed, LAMBDA x : ~isNaN(x))
    IN  [k \in DOMAIN kept |-> kept[k][1]]

PercentScale == 100
TrendDen == 10

(* the percentage with the slip of rounding down *)
completenessFloor(cols, rows, missing) ==
    ((Len(rows) * Len(cols) - missing) * PercentScale) \div (Len(rows) * Len(cols))

completenessOf(cols, rows, missing) ==
    LET cells == Len(rows) * Len(cols)
    IN  RoundDiv((cells - missing) * PercentScale, cells)

generateMetrics(cols, rows, raw) ==
    LET overview == getDataOverview(cols, rows, raw)
        revenueColumns == SelectSeq(overview.columns, LAMBDA col : isRevenueColumn(col))
        values == parsedValues(rows, revenueColumns[1].name)
        totalRevenue == SumSeq(values)
        avgRevenue == IF Len(values) > 0 THEN Ratio(totalRevenue, Len(values)) ELSE Ratio(0, 1)
    IN  << [label |-> "Total Records", value |-> Num(Len(rows)), format |-> "number",
            trend |-> "undefined"],
           [label |-> "Data Columns", value |-> Num(Len(cols)), format |-> "number",
            trend |-> "undefined"] >>
        \o (IF Len(revenueColumns) > 0
            THEN << [label |-> "Total Revenue", value |-> Num(totalRevenue),
                     format |-> "currency", trend |-> "up"],
                    [label |-> "Average Order Value", value |-> avgRevenue,
                     format |-> "currency", trend |-> "undefined"] >>
            ELSE <<>>)
        \o (IF overview.missingValues > 0
            THEN << [label |-> "Data Completeness",
                     value |-> Num(completenessOf(cols, rows, overview.missingValues)),
                     format |-> "percentage",
                     trend |-> IF overview.missingValues * TrendDen > Len(rows)
                               THEN "down" ELSE "neutral"] >>
            ELSE <<>>)

(***************************************************************************)
(* DataAnalyzer.createHistogramBins                                        *)
(* No value: min = Infinity, max = -Infinity, every bound is NaN.  All     *)
(* values equal: binSize = 0, (value - min) / binSize is NaN, bins[NaN]++   *)
(* touches none of the ten bins.                                           *)
(***************************************************************************)
binIndex(value, min, max, binCount) ==
    LET q == ((value - min) * binCount) \div (max - min)
    IN  IF q < binCount - 1 THEN q ELSE binCount - 1

binLabel(i, min, max, binCount) ==
    ToString(RoundDiv(min * binCount + i * (max - min), binCount)) \o "-"
    \o ToString(RoundDiv(min * binCount + (i + 1) * (max - min), binCount))

createHistogramBins(values, binCount) ==
    IF values = <<>>
    THEN [labels |-> [i \in 1..binCount |-> "NaN-NaN"], values |-> [i \in 1..binCount |-> 0]]
    ELSE LET min == MinOf(Range(values))
             max == MaxOf(Range(values))
         IN  [ labels |-> [i \in 1..binCount |-> binLabel(i - 1, min, max, binCount)],
               values |-> [i \in 1..binCount |->
                   IF max = min THEN 0
                   ELSE Cardinality({k \in DOMAIN values :
                                        binIndex(values[k], min, max, binCount) = i - 1})] ]

(***************************************************************************)
(* DataAnalyzer.generateCharts                                             *)
(***************************************************************************)
HistogramBins == 10
MaxCategoryUnique == 20
TopCategories == 10

(* the distinct elements of a sequence in the order of first occurrence *)
RECURSIVE Dedupe(_)
Dedupe(s) ==
    IF s = <<>> THEN <<>>
    ELSE LET front == Dedupe(SubSeq(s, 1, Len(s) - 1))
         IN  IF s[Len(s)] \in Range(front) THEN front ELSE Append(front, s[Len(s)])

(* a set of array-index keys in ascending numeric order *)
RECURSIVE AscendingKeys(_)
AscendingKeys(S) ==
    IF S = {} THEN <<>>
    ELSE LET least == CHOOSE k \in S : \A o \in S : parseFloat(k)[1] <= parseFloat(o)[1]
         IN  <<least>> \o AscendingKeys(S \ {least})

(* Object.keys / Object.entries order of the keys inserted in this order *)
objectKeys(inserted) ==
    LET keys == Dedupe(inserted)
    IN  AscendingKeys({k \in Range(keys) : IsArrayIndex(k)})
        \o SelectSeq(keys, LAMBDA k : ~IsArrayIndex(k))

(* Array.prototype.sort(([,a], [,b]) => b - a): stable, descending count *)
RECURSIVE insertByCount(_, _, _)
insertByCount(key, sorted, count) ==
    IF sorted = <<>> THEN <<key>>
    ELSE IF count[Head(sorted)] <= count[key] THEN <<key>> \o sorted
    ELSE <<Head(sorted)>> \o insertByCount(key, Tail(sorted), count)

RECURSIVE sortByCount(_, _)
sortByCount(keys, count) ==
    IF keys = <<>> THEN <<>>
    ELSE insertByCount(Head(keys), sortByCount(Tail(keys), count), count)

(* slice(0, n) with the slip of keeping every entry *)
sliceAll(s, n) == s

slice(s, n) == SubSeq(s, 1, IF Len(s) < n THEN Len(s) ELSE n)

revenueDistribution(cols, rows) ==
    LET infos == columnInfos(cols, rows)
        revenueColumns == SelectSeq(infos, LAMBDA col : isRevenueColumn(col))
        revenueCol == revenueColumns[1]
        bins == createHistogramBins(parsedValues(rows, revenueCol.name), HistogramBins)
    IN  IF Len(revenueColumns) > 0
        THEN << [type |-> "bar", title |-> revenueCol.name \o " Distribution",
                 labels |-> bins.labels, values |-> bins.values] >>
        ELSE <<>>

categorySorted(rows, name) ==
    LET values == [r \in DOMAIN rows |-> rows[r][name]]
        categoryCounts == [v \in Range(values) |->
                              Cardinality({r \in DOMAIN values : values[r] = v})]
    IN  [labels |-> slice(sortByCount(objectKeys(values), categoryCounts), TopCategories),
         counts |-> categoryCounts]

categoryDistribution(cols, rows) ==
    LET infos == columnInfos(cols, rows)
        categoryColumns == SelectSeq(infos, LAMBDA col :
                              col.type = "categorical" /\ col.uniqueValues < MaxCategoryUnique)
        categoryCol == categoryColumns[1]
        sorted == categorySorted(rows, categoryCol.name)
    IN  IF Len(categoryColumns) > 0
        THEN << [type |-> "doughnut", title |-> categoryCol.name \o " Distribution",
                 labels |-> sorted.labels,
                 values |-> [k \in DOMAIN sorted.labels |-> sorted.counts[sorted.labels[k]]]] >>
        ELSE <<>>

isDateColumn(col) == col.businessType = "date" \/ col.type = "datetime"

(* the two columns of the time series, <<>> when one of them is missing *)
trendColumns(cols, rows) ==
    LET infos == columnInfos(cols, rows)
        dateColumns == SelectSeq(infos, LAMBDA col : isDateColumn(col))
        revenueColumns == SelectSeq(infos, LAMBDA col : isRevenueColumn(col))
    IN  IF Len(dateColumns) > 0 /\ Len(revenueColumns) > 0
        THEN <<dateColumns[1].name, revenueColumns[1].name>>
        ELSE <<>>

(* new Date(cell).toISOString() raises RangeError on an invalid date *)
InvalidTimeMessage == "Invalid time value"

trendThrows(cols, rows) ==
    LET tc == trendColumns(cols, rows)
    IN  tc # <<>> /\ \E r \in DOMAIN rows : ~DateParses(rows[r][tc[1]])

RECURSIVE sortDays(_)
sortDays(S) ==
    IF S = {} THEN <<>>
    ELSE LET first == CHOOSE k \in S : \A o \in S : DayKeyRank(k) <= DayKeyRank(o)
         IN  <<first>> \o sortDays(S \ {first})

revenueTrend(cols, rows) ==
    LET tc == trendColumns(cols, rows)
        counted == {r \in DOMAIN rows : ~isNaN(parseFloat(rows[r][tc[2]]))}
        sortedDates == sortDays({DayKey(rows[r][tc[1]]) : r \in counted})
        timeData(day) ==
            SumSeq([k \in DOMAIN rows |->
                       IF k \in counted /\ DayKey(rows[k][tc[1]]) = day
                       THEN parseFloat(rows[k][tc[2]])[1] ELSE 0])
    IN  IF tc # <<>>
        THEN << [type |-> "line", title |-> "Revenue Trend Over Time",
                 labels |-> sortedDates,
                 values |-> [k \in DOMAIN sortedDates |-> timeData(sortedDates[k])]] >>
        ELSE <<>>

generateCharts(cols, rows, raw) ==
    revenueDistribution(cols, rows) \o categoryDistribution(cols, rows)
    \o revenueTrend(cols, rows)

(***************************************************************************)
(* DataAnalyzer.generateInsights and DataAnalyzer.generateRecommendations  *)
(***************************************************************************)
CleaningNum == 5
CleaningDen == 100

generateInsights(cols, rows, raw) ==
    LET overview == getDataOverview(cols, rows, raw)
        revenueColumns == SelectSeq(overview.columns, LAMBDA col : col.businessType = "revenue")
        customerColumns == SelectSeq(overview.columns, LAMBDA col : col.businessType = "customer")
        totalRevenue == SumSeq(parsedValues(rows, revenueColumns[1].name))
        uniqueCustomers == Cardinality({rows[r][customerColumns[1].name] : r \in DOMAIN rows})
    IN  << "Dataset contains " \o toLocaleString(Len(rows)) \o " records across "
           \o ToString(Len(cols)) \o " columns" >>
        \o (IF overview.missingValues > 0
            THEN << "Data completeness is "
                    \o ToString(completenessOf(cols, rows, overview.missingValues))
                    \o "% with " \o ToString(overview.missingValues) \o " missing values" >>
            ELSE <<>>)
        \o (IF overview.duplicateRows > 0
            THEN << "Found " \o ToString(overview.duplicateRows)
                    \o " duplicate records that may need attention" >>
            ELSE <<>>)
        \o (IF Len(revenueColumns) > 0
            THEN << "Total revenue across all records is $" \o toLocaleString(totalRevenue) >>
            ELSE <<>>)
        \o (IF Len(customerColumns) > 0
            THEN << "Dataset includes " \o toLocaleString(uniqueCustomers)
                    \o " unique customers" >>
            ELSE <<>>)

generateRecommendations(cols, rows, raw) ==
    LET overview == getDataOverview(cols, rows, raw)
        revenueColumns == SelectSeq(overview.columns, LAMBDA col : col.businessType = "revenue")
        dateColumns == SelectSeq(overview.columns, LAMBDA col : col.businessType = "date")
        categoryColumns == SelectSeq(overview.columns, LAMBDA col :
                              col.type = "categorical" /\ col.uniqueValues < MaxCategoryUnique)
    IN  (IF overview.missingValues * CleaningDen > Len(rows) * CleaningNum
         THEN << "Consider data cleaning to address missing values before analysis" >>
         ELSE <<>>)
        \o (IF overview.duplicateRows > 0
            THEN << "Remove duplicate records to improve data quality" >> ELSE <<>>)
        \o (IF Len(revenueColumns) > 0 /\ Len(dateColumns) > 0
            THEN << "Analyze revenue trends over time to identify seasonal patterns" >>
            ELSE <<>>)
        \o (IF Len(categoryColumns) > 0
            THEN << "Segment analysis by categories could reveal growth opportunities" >>
            ELSE <<>>)
        \o (IF Len(revenueColumns) > 0
            THEN << "Focus on high-value transactions to maximize revenue impact" >>
            ELSE <<>>)

(***************************************************************************)
(* DataAnalyzer.performCompleteAnalysis, after its timer: the five parts   *)
(* are computed in one synchronous run from this.columns, this.data and    *)
(* this.rawData; generateCharts may raise.                                 *)
(***************************************************************************)
analysisThrows(cols, rows, raw) == trendThrows(cols, rows)

(* the result with the slip of carrying a count of the analyses resolved before it *)
analysisResultStamped(cols, rows, raw) ==
    [ overview |-> getDataOverview(cols, rows, raw),
      metrics |-> generateMetrics(cols, rows, raw),
      charts |-> generateCharts(cols, rows, raw),
      insights |-> generateInsights(cols, rows, raw)
                   \o << "Run " \o ToString(Cardinality({b \in Analyzers : pc[b] = "resolved"})) >>,
      recommendations |-> generateRecommendations(cols, rows, raw) ]

analysisResult(cols, rows, raw) ==
    [ overview |-> getDataOverview(cols, rows, raw),
      metrics |-> generateMetrics(cols, rows, raw),
      charts |-> generateCharts(cols, rows, raw),
      insights |-> generateInsights(cols, rows, raw),
      recommendations |-> generateRecommendations(cols, rows, raw) ]

(***************************************************************************)
(* The texts handed to the constructor.                                    *)
(***************************************************************************)
MaxRows == 3
MaxPairRows == 2
MaxCategories == 12
MaxRepeats == 2
MaxLineTokens == 4

SeqsUpTo(S, n) == UNION {[1..k -> S] : k \in 0..n}

(* a row of cells as a line, and a table as a text *)
RECURSIVE renderLine(_)
renderLine(cells) ==
    IF cells = <<>> THEN <<>>
    ELSE (IF Head(cells) = "" THEN <<>> ELSE <<Head(cells)>>)
         \o (IF Len(cells) > 1 THEN <<COMMA>> \o renderLine(Tail(cells)) ELSE <<>>)

RECURSIVE renderLines(_)
renderLines(rows) ==
    IF rows = <<>> THEN <<>> ELSE <<NL>> \o renderLine(Head(rows)) \o renderLines(Tail(rows))

renderText(header, rows) == renderLine(header) \o renderLines(rows)

ColumnNames == {"amount", "value", "customer_id", "date", "city"}
Cells == {"", "10", "20", "30", "abc", "2024-01-01"}

OneColumnTexts ==
    {renderText(<<n>>, [r \in DOMAIN rs |-> <<rs[r]>>]) :
        n \in ColumnNames, rs \in SeqsUpTo(Cells, MaxRows)}

PairHeaders ==
    { <<"amount", "date">>, <<"amount", "when">>, <<"amount", "amount">>,
      <<"customer_id", "amount">> }
PairRows ==
    { <<"10", "2024-01-01">>, <<"20", "2024-01-01">>, <<"30", "2024-01-02">>,
      <<"20", "2024-01-01T12:00:00Z">>, <<"abc", "2024-01-02">>, <<"", "abc">>, <<"10">>,
      <<"", "">> }

TwoColumnTexts ==
    {renderText(h, rs) : h \in PairHeaders, rs \in SeqsUpTo(PairRows, MaxPairRows)}

Cities ==
    << "Paris", "Rome", "Oslo", "Lima", "Cairo", "Quito", "Hanoi", "Dakar", "Perth",
       "Turin", "Porto", "Basel", "Kyoto", "Lagos", "Minsk", "Sofia" >>

(* one column of k distinct cities, then `extra` more rows of city j *)
CategoryTexts ==
    {renderText(<<"city">>,
                [r \in 1..(k + extra) |-> <<IF r <= k THEN Cities[r] ELSE Cities[j]>>]) :
        k \in 1..MaxCategories, j \in 1..MaxCategories, extra \in 0..MaxRepeats}

QuotedTexts ==
    { <<"city", COMMA, "amount", NL,
        QUOTE, "New", SP, "York", COMMA, SP, "NY", QUOTE, COMMA, SP, "10", SP>>,
      <<SP, "amount", SP, COMMA, QUOTE, "date", QUOTE, NL, "10", COMMA, "2024-01-01", NL>>,
      <<QUOTE, "city", COMMA, SP, "state", QUOTE, COMMA, "amount", NL,
        QUOTE, "Paris", COMMA, SP, "FR", QUOTE, COMMA, "10">> }

(* the worked example: amount,date with 10 and 20 on one day and 30 on the next *)
ExampleRows == << <<"10", "2024-01-01">>, <<"20", "2024-01-01">>, <<"30", "2024-01-02">> >>

ExampleTexts == { renderText(<<"amount", "date">>, ExampleRows) }

(* a header of two plain names and one data line written character by character *)
LineTokens == {QUOTE, COMMA, SP, "x"}

TokenLineTexts ==
    {<<"city", COMMA, "note", NL>> \o line : line \in SeqsUpTo(LineTokens, MaxLineTokens)}

(* one column of five cells around the 80% share of numbers and of dates *)
ThresholdColumns ==
    { <<"10", "20", "30", "10", "20">>, <<"10", "20", "30", "10", "abc">>,
      <<"10", "20", "30", "abc", "abc">>,
      <<"2024-01-01", "2024-01-02", "2024-01-01", "2024-01-02", "2024-01-01">>,
      <<"2024-01-01", "2024-01-02", "2024-01-01", "2024-01-02", "abc">>,
      <<"2024-01-01", "2024-01-02", "2024-01-01", "abc", "abc">> }

ThresholdTexts ==
    {renderText(<<"score">>, [r \in DOMAIN c |-> <<c[r]>>]) : c \in ThresholdColumns}

(* one column of k distinct cities with one blank line after the first *)
SparseTexts ==
    {renderText(<<"city">>,
                [r \in 1..(k + 1) |->
                    <<IF r = 1 THEN Cities[1] ELSE IF r = 2 THEN "" ELSE Cities[r - 1]>>]) :
        k \in 9..MaxCategories}

Inputs ==
    OneColumnTexts \cup TwoColumnTexts \cup CategoryTexts \cup QuotedTexts \cup ExampleTexts
    \cup TokenLineTexts \cup ThresholdTexts \cup SparseTexts

(***************************************************************************)
(* The state machine: analyzers are constructed, asked for the complete    *)
(* analysis and resumed by their timer.                                    *)
(***************************************************************************)
(* the five parts of an AnalysisResult *)
PartNames == {"overview", "metrics", "charts", "insights", "recommendations"}

Init ==
    /\ rawData = [a \in Analyzers |-> <<>>]
    /\ columns = [a \in Analyzers |-> <<>>]
    /\ data = [a \in Analyzers |-> <<>>]
    /\ pc = [a \in Analyzers |-> "none"]
    /\ result = [a \in Analyzers |-> <<>>]
    /\ error = [a \in Analyzers |-> <<>>]
    /\ legacyDateParse \in BOOLEAN
    /\ computed = [a \in Analyzers |-> [p \in PartNames |-> <<>>]]
    /\ isLoading = FALSE
    /\ appAnalysisResult = <<>>
    /\ appError = <<>>
    /\ uploadedFile = <<>>
    /\ uploadStatus = "idle"
    /\ errorMessage = ""
    /\ file = [u \in Analyzers |-> <<>>]
    /\ upload = [u \in Analyzers |-> "none"]
    /\ handOffs = <<>>
    /\ analysisTimers = <<>>
    /\ resultFrom = <<>>
    /\ errorFrom = <<>>

(* parseCSV with the slip of keeping columns and data in fields shared by all analyzers *)
parseCSVShared(a, csvData) ==
    IF parseThrows(csvData)
    THEN /\ pc' = [pc EXCEPT ![a] = "threw"]
         /\ error' = [error EXCEPT ![a] = <<MalformedMessage>>]
         /\ UNCHANGED <<columns, data>>
    ELSE /\ columns' = [b \in Analyzers |-> parseHeader(csvData)]
         /\ data' = [b \in Analyzers |-> parseRows(csvData)]
         /\ pc' = [pc EXCEPT ![a] = "constructed"]
         /\ UNCHANGED error

(* new DataAnalyzer(csvData): the constructor stores the text and parses it *)
parseCSV(a, csvData) ==
    IF parseThrows(csvData)
    THEN /\ pc' = [pc EXCEPT ![a] = "threw"]
         /\ error' = [error EXCEPT ![a] = <<MalformedMessage>>]
         /\ UNCHANGED <<columns, data>>
    ELSE /\ columns' = [columns EXCEPT ![a] = parseHeader(csvData)]
         /\ data' = [data EXCEPT ![a] = parseRows(csvData)]
         /\ pc' = [pc EXCEPT ![a] = "constructed"]
         /\ UNCHANGED error

Construct(a, csvData) ==
    /\ pc[a] = "none"
    /\ rawData' = [rawData EXCEPT ![a] = csvData]
    /\ parseCSV(a, csvData)
    /\ UNCHANGED <<result, legacyDateParse, computed, hostVars>>

(* performCompleteAnalysis() is called: it sets its 2000 ms timer and awaits it *)
SimulatedDelayMs == 2000

performCompleteAnalysis(a) ==
    /\ pc[a] = "constructed"
    /\ pc' = [pc EXCEPT ![a] = "awaiting"]
    /\ UNCHANGED <<rawData, columns, data, result, error, legacyDateParse, computed, hostVars>>

(* the timer fires: the rest of performCompleteAnalysis runs to its end *)
completeAnalysis(a) ==
    /\ pc[a] = "awaiting"
    /\ IF analysisThrows(columns[a], data[a], rawData[a])
       THEN /\ pc' = [pc EXCEPT ![a] = "rejected"]
            /\ error' = [error EXCEPT ![a] = <<InvalidTimeMessage>>]
            /\ UNCHANGED result
       ELSE /\ pc' = [pc EXCEPT ![a] = "resolved"]
            /\ result' = [result EXCEPT ![a] =
                             <<analysisResult(columns[a], data[a], rawData[a])>>]
            /\ UNCHANGED error
    /\ UNCHANGED <<rawData, columns, data, legacyDateParse, computed, hostVars>>

(* one analyzer at a time *)
Next ==
    \/ \E csvData \in Inputs : Construct("a1", csvData)
    \/ performCompleteAnalysis("a1")
    \/ completeAnalysis("a1")

Spec == Init /\ [][Next]_vars

(***************************************************************************)
(* Two uploads at once: the host creates one analyzer per upload, and the  *)
(* two analyses interleave at their await points.                          *)
(***************************************************************************)
ConcurrentTables ==
    { << <<"amount">>, << <<"10">>, <<"abc">>, <<"20">> >> >>,
      << <<"amount", "date">>, ExampleRows >>,
      << <<"city">>, << <<"Paris">>, <<"Rome">>, <<"Paris">> >> >>,
      << <<"amount", "date">>, << <<"10", "2024-01-01">>, <<"20", "abc">> >> >>,
      << <<"city">>, << >> >> }

(* every table in every order of its rows *)
ConcurrentTexts ==
    UNION { {renderText(t[1], [i \in DOMAIN t[2] |-> t[2][p[i]]]) :
                p \in Permutations(DOMAIN t[2])} : t \in ConcurrentTables }

NextPair ==
    \E a \in Analyzers :
        \/ \E csvData \in ConcurrentTexts : Construct(a, csvData)
        \/ performCompleteAnalysis(a)
        \/ completeAnalysis(a)

SpecPair == Init /\ [][NextPair]_vars

(***************************************************************************)
(* The five statements of performCompleteAnalysis taken one at a time and  *)
(* in any order: each computes its part from this.columns, this.data and   *)
(* this.rawData as they are when it runs.                                  *)
(***************************************************************************)
partValue(part, cols, rows, raw) ==
    CASE part = "overview" -> getDataOverview(cols, rows, raw)
      [] part = "metrics" -> generateMetrics(cols, rows, raw)
      [] part = "charts" -> generateCharts(cols, rows, raw)
      [] part = "insights" -> generateInsights(cols, rows, raw)
      [] part = "recommendations" -> generateRecommendations(cols, rows, raw)

(* this.data after a part with the slip of generateCharts sorting the rows in place *)
tableAfterSorting(part, rows) ==
    IF part = "charts" THEN [i \in DOMAIN rows |-> rows[Len(rows) + 1 - i]] ELSE rows

(* this.data after a part was computed: the methods read it with map,      *)
(* filter, forEach and reduce and sort only arrays of their own            *)
tableAfter(part, rows) == rows

(* the timer of performCompleteAnalysis fires *)
timerFires(a) ==
    /\ pc[a] = "awaiting"
    /\ pc' = [pc EXCEPT ![a] = "computing"]
    /\ UNCHANGED <<rawData, columns, data, result, error, legacyDateParse, computed, hostVars>>

computePart(a, part) ==
    /\ pc[a] = "computing"
    /\ computed[a][part] = <<>>
    /\ IF part = "charts" /\ analysisThrows(columns[a], data[a], rawData[a])
       THEN /\ pc' = [pc EXCEPT ![a] = "rejected"]
            /\ error' = [error EXCEPT ![a] = <<InvalidTimeMessage>>]
            /\ UNCHANGED <<computed, data>>
       ELSE /\ computed' = [computed EXCEPT ![a][part] =
                               <<partValue(part, columns[a], data[a], rawData[a])>>]
            /\ data' = [data EXCEPT ![a] = tableAfter(part, data[a])]
            /\ UNCHANGED <<pc, error>>
    /\ UNCHANGED <<rawData, columns, result, legacyDateParse, hostVars>>

(* return { overview, metrics, charts, insights, recommendations } *)
assemble(a) ==
    /\ pc[a] = "computing"
    /\ \A part \in PartNames : computed[a][part] # <<>>
    /\ result' = [result EXCEPT ![a] = <<[part \in PartNames |-> computed[a][part][1]]>>]
    /\ pc' = [pc EXCEPT ![a] = "resolved"]
    /\ UNCHANGED <<rawData, columns, data, error, legacyDateParse, computed, hostVars>>

NextParts ==
    \/ \E csvData \in ConcurrentTexts : Construct("a1", csvData)
    \/ performCompleteAnalysis("a1")
    \/ timerFires("a1")
    \/ \E part \in PartNames : computePart("a1", part)
    \/ assemble("a1")

SpecParts == Init /\ [][NextParts]_vars

(***************************************************************************)
(* The host: FileUpload.onDrop validates a dropped file and hands it to    *)
(* App.handleFileUpload after 500 ms; handleFileUpload reads the file,     *)
(* creates its analyzer and awaits the analysis.  An upload has the name   *)
(* of its analyzer.  Timers of one delay fire in the order they were set.  *)
(***************************************************************************)
MaxFileBytes == 50 * 1024 * 1024
HandOffDelayMs == 500

SizeMessage == "File size must be less than 50MB"
TypeMessage == "Please upload a CSV file"

(* the message of the error file.text() rejects with when the file cannot be read *)
ReadErrorMessage == "The requested file could not be read"

(* String.prototype.endsWith('.csv') on the lower-cased names of the model *)
endsWithCsv(lowerName) == lowerName \in {"a.csv", "b.csv"}

(* the size test with the slip of a limit twice as high *)
fileTooLargeDoubled(f) == f.size > 2 * MaxFileBytes

fileTooLarge(f) == f.size > MaxFileBytes

AppTexts ==
    { renderText(<<"amount", "date">>, ExampleRows),
      renderText(<<"city">>, << <<"Paris">>, <<"Rome">> >>),
      renderText(<<"amount", "date">>, << <<"10", "2024-01-01">>, <<"10">> >>),
      <<"city">> }

Files ==
    {[name |-> n, size |-> BytesPerKB, data |-> t] : n \in {"a.csv", "b.CSV"}, t \in AppTexts}
    \cup { [name |-> "c.txt", size |-> BytesPerKB, data |-> <<"city", NL, "Paris">>],
           [name |-> "csv", size |-> BytesPerKB, data |-> <<"city", NL, "Paris">>],
           [name |-> "a.csv", size |-> MaxFileBytes + 1, data |-> <<"city", NL, "Paris">>],
           [name |-> "b.CSV", size |-> MaxFileBytes, data |-> <<"city", NL, "Paris">>] }

(* App renders FileUpload when it is not loading and holds no result,      *)
(* Dashboard when it is not loading and holds one                          *)
Mounted == ~isLoading /\ appAnalysisResult = <<>>

DashboardShown == ~isLoading /\ appAnalysisResult # <<>>

(* the FileUpload state after a render: a widget that is unmounted or      *)
(* newly mounted has its initial state                                    *)
widgetAfter(loadingNext, resultNext) ==
    IF Mounted /\ ~loadingNext /\ resultNext = <<>>
    THEN /\ UNCHANGED <<uploadStatus, errorMessage>>
    ELSE /\ uploadStatus' = "idle"
         /\ errorMessage' = ""

FreeUpload == CHOOSE u \in Analyzers : upload[u] = "none"

(* FileUpload.onDrop *)
onDrop(acceptedFiles) ==
    /\ Mounted
    /\ IF acceptedFiles = <<>>
       THEN UNCHANGED vars
       ELSE /\ \E u \in Analyzers : upload[u] = "none"
            /\ LET u == FreeUpload
                   f == acceptedFiles[1]
               IN  /\ file' = [file EXCEPT ![u] = <<f>>]
                   /\ IF fileTooLarge(f)
                      THEN /\ uploadStatus' = "error"
                           /\ errorMessage' = SizeMessage
                           /\ upload' = [upload EXCEPT ![u] = "refused"]
                           /\ UNCHANGED handOffs
                      ELSE IF ~endsWithCsv(toLowerCase(f.name))
                      THEN /\ uploadStatus' = "error"
                           /\ errorMessage' = TypeMessage
                           /\ upload' = [upload EXCEPT ![u] = "refused"]
                           /\ UNCHANGED handOffs
                      ELSE /\ uploadStatus' = "valid"
                           /\ handOffs' = Append(handOffs, u)
                           /\ upload' = [upload EXCEPT ![u] = "scheduled"]
                           /\ UNCHANGED errorMessage
            /\ UNCHANGED <<engineVars, computed, isLoading, appAnalysisResult, appError,
                           uploadedFile, analysisTimers, resultFrom, errorFrom>>

(* the hand-off timer of the oldest accepted drop fires: handleFileUpload   *)
(* sets the loading flag, clears the error and awaits file.text()          *)
handleFileUpload ==
    /\ handOffs # <<>>
    /\ handOffs' = Tail(handOffs)
    /\ upload' = [upload EXCEPT ![Head(handOffs)] = "reading"]
    /\ isLoading' = TRUE
    /\ appError' = <<>>
    /\ errorFrom' = <<>>
    /\ widgetAfter(TRUE, appAnalysisResult)
    /\ UNCHANGED <<engineVars, computed, appAnalysisResult, uploadedFile, file,
                   analysisTimers, resultFrom>>

(* catch and finally with the slip of leaving the loading flag as it is *)
catchKeepsLoading(u, message) ==
    /\ appError' = <<message>>
    /\ errorFrom' = <<u>>
    /\ upload' = [upload EXCEPT ![u] = "failed"]
    /\ UNCHANGED <<isLoading, appAnalysisResult, resultFrom>>
    /\ widgetAfter(isLoading, appAnalysisResult)

(* catch and finally with the slip of dropping the result held *)
catchClearsResult(u, message) ==
    /\ appError' = <<message>>
    /\ errorFrom' = <<u>>
    /\ isLoading' = FALSE
    /\ upload' = [upload EXCEPT ![u] = "failed"]
    /\ appAnalysisResult' = <<>>
    /\ resultFrom' = <<>>
    /\ widgetAfter(FALSE, <<>>)

(* catch (err) { setError(err.message) } finally { setIsLoading(false) } *)
catchAndFinally(u, message) ==
    /\ appError' = <<message>>
    /\ errorFrom' = <<u>>
    /\ isLoading' = FALSE
    /\ upload' = [upload EXCEPT ![u] = "failed"]
    /\ UNCHANGED <<appAnalysisResult, resultFrom>>
    /\ widgetAfter(FALSE, appAnalysisResult)

(* file.text() resolves: the DataFile is stored, the analyzer is created   *)
(* and, unless its constructor throws, performCompleteAnalysis is awaited  *)
readResolves(u) ==
    /\ upload[u] = "reading"
    /\ uploadedFile' = <<file[u][1]>>
    /\ rawData' = [rawData EXCEPT ![u] = file[u][1].data]
    /\ IF parseThrows(file[u][1].data)
       THEN /\ pc' = [pc EXCEPT ![u] = "threw"]
            /\ error' = [error EXCEPT ![u] = <<MalformedMessage>>]
            /\ catchAndFinally(u, MalformedMessage)
            /\ UNCHANGED <<columns, data, analysisTimers>>
       ELSE /\ columns' = [columns EXCEPT ![u] = parseHeader(file[u][1].data)]
            /\ data' = [data EXCEPT ![u] = parseRows(file[u][1].data)]
            /\ pc' = [pc EXCEPT ![u] = "awaiting"]
            /\ analysisTimers' = Append(analysisTimers, u)
            /\ upload' = [upload EXCEPT ![u] = "analyzing"]
            /\ UNCHANGED <<error, isLoading, appAnalysisResult, appError, uploadStatus,
                           errorMessage, resultFrom, errorFrom>>
    /\ UNCHANGED <<result, legacyDateParse, computed, file, handOffs>>

(* file.text() rejects: the file cannot be read *)
readRejects(u) ==
    /\ upload[u] = "reading"
    /\ catchAndFinally(u, ReadErrorMessage)
    /\ UNCHANGED <<engineVars, computed, uploadedFile, file, handOffs, analysisTimers>>

(* the callback of setTimeout(resolve, 2000) of the oldest awaited         *)
(* analysis runs                                                          *)
analysisTimerFires ==
    /\ analysisTimers # <<>>
    /\ analysisTimers' = Tail(analysisTimers)

(* the analysis timer of the oldest awaited analysis fires: the analysis   *)
(* runs to its end and handleFileUpload resumes with its outcome           *)
analysisSettles ==
    /\ analysisTimerFires
    /\ LET u == Head(analysisTimers)
       IN  IF analysisThrows(columns[u], data[u], rawData[u])
           THEN /\ pc' = [pc EXCEPT ![u] = "rejected"]
                /\ error' = [error EXCEPT ![u] = <<InvalidTimeMessage>>]
                /\ catchAndFinally(u, InvalidTimeMessage)
                /\ UNCHANGED result
           ELSE /\ pc' = [pc EXCEPT ![u] = "resolved"]
                /\ result' = [result EXCEPT ![u] =
                                 <<analysisResult(columns[u], data[u], rawData[u])>>]
                /\ appAnalysisResult' = <<analysisResult(columns[u], data[u], rawData[u])>>
                /\ resultFrom' = <<u>>
                /\ isLoading' = FALSE
                /\ upload' = [upload EXCEPT ![u] = "stored"]
                /\ uploadStatus' = "idle"
                /\ errorMessage' = ""
                /\ UNCHANGED <<error, appError, errorFrom>>
    /\ UNCHANGED <<rawData, columns, data, legacyDateParse, computed, uploadedFile, file,
                   handOffs>>

(* App.handleReset, the Dashboard's reset button *)
handleReset ==
    /\ DashboardShown
    /\ appAnalysisResult' = <<>>
    /\ uploadedFile' = <<>>
    /\ appError' = <<>>
    /\ resultFrom' = <<>>
    /\ errorFrom' = <<>>
    /\ uploadStatus' = "idle"
    /\ errorMessage' = ""
    /\ UNCHANGED <<engineVars, computed, isLoading, file, upload, handOffs, analysisTimers>>

NextApp ==
    \/ \E acceptedFiles \in {<<>>} \cup {<<f>> : f \in Files} : onDrop(acceptedFiles)
    \/ handleFileUpload
    \/ \E u \in Analyzers : readResolves(u)
    \/ \E u \in Analyzers : readRejects(u)
    \/ analysisSettles
    \/ handleReset

SpecApp == Init /\ [][NextApp]_vars

(* timers fire and file reads settle; drops and resets are up to the user. *)
(* Only analysisSettles takes the head off analysisTimers, so the last     *)
(* condition is weak fairness of analysisSettles.                         *)
SpecAppLive ==
    /\ SpecApp
    /\ WF_vars(handleFileUpload)
    /\ \A u \in Analyzers : WF_vars(readRejects(u) \/ readResolves(u))
    /\ WF_analysisTimers(analysisTimerFires)

(***************************************************************************)
(* Properties of one analysis.                                             *)
(***************************************************************************)
Resolved(a) == pc[a] = "resolved"

chartsOfType(a, t) == SelectSeq(result[a][1].charts, LAMBDA c : c.type = t)

CountOf(text, t) == Cardinality({i \in DOMAIN text : text[i] = t})

NonBlank(line) == \E i \in DOMAIN line : ~IsSpace(line[i])

(* the text starts with a non-blank line and has a non-blank line after it *)
HasHeaderAndDataLine(text) ==
    LET ls == Split(text, NL)
    IN  Len(ls) >= 2 /\ NonBlank(ls[1]) /\ \E k \in 2..Len(ls) : NonBlank(ls[k])

(* C1: for every text with a header line and at least one data line the    *)
(* analysis returns a result and raises no error, whatever the cells hold. *)
C1_AnalysisNeverFails ==
    \A a \in Analyzers :
        HasHeaderAndDataLine(rawData[a]) => pc[a] \notin {"threw", "rejected"}

(* the lines of a text; a final newline ends the last line, it starts none *)
TextLineCount(text) ==
    IF text = <<>> THEN 0
    ELSE CountOf(text, NL) + (IF text[Len(text)] = NL THEN 0 ELSE 1)

(* C2: a text of fewer than two lines makes the analysis fail with the     *)
(* malformed-input error and yields no result; so does a lone header.      *)
C2_FewerThanTwoLinesFails ==
    \A a \in Analyzers :
        (pc[a] # "none" /\ TextLineCount(rawData[a]) < 2)
            => /\ pc[a] = "threw"
               /\ error[a] = <<MalformedMessage>>
               /\ result[a] = <<>>

C2_Witness ==
    \E a \in Analyzers :
        pc[a] = "threw" /\ rawData[a] = <<"city">> /\ error[a] = <<MalformedMessage>>

(* the name of the first revenue column of a resolved analysis, <<>> without one *)
revenueNameOf(a) ==
    LET revenueColumns == SelectSeq(result[a][1].overview.columns,
                                    LAMBDA col : isRevenueColumn(col))
    IN  IF revenueColumns = <<>> THEN <<>> ELSE <<revenueColumns[1].name>>

parsedRowsOf(a, name) == {r \in DOMAIN data[a] : ~isNaN(parseFloat(data[a][r][name]))}

(* C3: with a revenue column, every parsed revenue value is counted in one *)
(* of the 10 bins, so the bin counts sum to the number of parsed values,   *)
(* also for a single value or values that are all equal.                   *)
C3_BinCountsSumToParsedValues ==
    \A a \in Analyzers :
        (Resolved(a) /\ revenueNameOf(a) # <<>>)
            => LET bars == chartsOfType(a, "bar")
               IN  /\ Len(bars) = 1
                   /\ Len(bars[1].values) = HistogramBins
                   /\ SumSeq(bars[1].values)
                          = Cardinality(parsedRowsOf(a, revenueNameOf(a)[1]))

(* the day keys of the rows whose date parses, and the revenue of a day *)
parsedDaysOf(a, dateName) ==
    {DayKey(data[a][r][dateName]) : r \in {q \in DOMAIN data[a] : DateParses(data[a][q][dateName])}}

dayRevenueOf(a, dateName, revenueName, day) ==
    SumSeq([r \in DOMAIN data[a] |->
               IF /\ DateParses(data[a][r][dateName])
                  /\ DayKey(data[a][r][dateName]) = day
                  /\ r \in parsedRowsOf(a, revenueName)
               THEN parseFloat(data[a][r][revenueName])[1] ELSE 0])

(* C4: when a date column and a revenue column both exist, the line chart  *)
(* has one point per distinct day key among the rows whose date parses, in *)
(* ascending key order, each the sum of the numeric revenue cells of the   *)
(* rows of that day; rows whose date does not parse contribute to no point.*)
C4_TrendHasOnePointPerDay ==
    \A a \in Analyzers :
        (pc[a] \in {"resolved", "rejected"} /\ trendColumns(columns[a], data[a]) # <<>>)
            => /\ Resolved(a)
               /\ LET tc == trendColumns(columns[a], data[a])
                      lines == chartsOfType(a, "line")
                      days == sortDays(parsedDaysOf(a, tc[1]))
                  IN  /\ Len(lines) = 1
                      /\ lines[1].labels = days
                      /\ lines[1].values
                             = [k \in DOMAIN days |-> dayRevenueOf(a, tc[1], tc[2], days[k])]

(* the data lines and the header fields of a text, counted on the text *)
DataLineCount(text) == CountOf(Trim(text), NL)

HeaderFieldCount(text) ==
    LET t == Trim(text)
        firstNL == MinOf({i \in DOMAIN t : t[i] = NL})
    IN  1 + CountOf(SubSeq(t, 1, firstNL - 1), COMMA)

(* C5: for a text with header row h and n data rows, the overview has      *)
(* rowCount = n and columnCount = len(h).                                  *)
C5_RowAndColumnCount ==
    \A a \in Analyzers :
        Resolved(a)
            => /\ result[a][1].overview.totalRows = DataLineCount(rawData[a])
               /\ result[a][1].overview.totalColumns = HeaderFieldCount(rawData[a])

C5_Witness ==
    \E a \in Analyzers :
        /\ Resolved(a)
        /\ result[a][1].overview.totalRows = 2
        /\ result[a][1].overview.totalColumns = 2
        /\ \E r \in DOMAIN data[a] : \A c \in DOMAIN data[a][r] : data[a][r][c] = ""

emptyCellsOf(a, k) == {r \in DOMAIN data[a] : data[a][r][columns[a][k]] = ""}

(* C6: totalMissingValues is the sum over the columns of nullCount, and a  *)
(* column's nullCount is the number of rows whose cell in it is empty.     *)
C6_MissingValuesIsSumOfNullCounts ==
    \A a \in Analyzers :
        Resolved(a)
            => LET infos == result[a][1].overview.columns
               IN  /\ DOMAIN infos = DOMAIN columns[a]
                   /\ \A k \in DOMAIN infos :
                          infos[k].nullCount = Cardinality(emptyCellsOf(a, k))
                   /\ result[a][1].overview.missingValues
                          = SumSeq([k \in DOMAIN infos |-> Cardinality(emptyCellsOf(a, k))])

C6_Witness ==
    \E a \in Analyzers :
        /\ Resolved(a)
        /\ Len(columns[a]) = 2
        /\ columns[a][1] # columns[a][2]
        /\ result[a][1].overview.columns[1].nullCount = 1
        /\ result[a][1].overview.columns[2].nullCount = 1
        /\ result[a][1].overview.columns[1].uniqueValues = 1
        /\ Len(data[a]) = 2
        /\ result[a][1].overview.missingValues = 2

(* C7: the doughnut chart never has more than 10 entries, and its entries  *)
(* are in non-increasing order of occurrence count.                        *)
C7_CategoryChartTopTenDescending ==
    \A a \in Analyzers :
        Resolved(a)
            => \A k \in DOMAIN chartsOfType(a, "doughnut") :
                   LET chart == chartsOfType(a, "doughnut")[k]
                   IN  /\ Len(chart.labels) <= TopCategories
                       /\ Len(chart.values) = Len(chart.labels)
                       /\ \A i \in 1..(Len(chart.values) - 1) :
                              chart.values[i] >= chart.values[i + 1]

C7_Witness ==
    \E a \in Analyzers :
        /\ Resolved(a)
        /\ result[a][1].overview.columns[1].uniqueValues > TopCategories
        /\ Len(chartsOfType(a, "doughnut")) = 1
        /\ LET chart == chartsOfType(a, "doughnut")[1]
           IN  /\ Len(chart.labels) = TopCategories
               /\ chart.values[1] > chart.values[2]
               /\ chart.labels[1] # data[a][1][columns[a][1]]

(***************************************************************************)
(* Properties of two analyses.                                             *)
(***************************************************************************)
Settled(a) == pc[a] \in {"threw", "resolved", "rejected"}

(* C8: two analyses running concurrently on different inputs each return   *)
(* the result they would return alone: each has its own table and result.  *)
C8_ConcurrentAnalysesAreIndependent ==
    \A a \in Analyzers :
        LET raw == rawData[a]
            cols == parseHeader(raw)
            rows == parseRows(raw)
        IN  /\ pc[a] = "threw" => parseThrows(raw) /\ result[a] = <<>>
            /\ pc[a] \in {"constructed", "awaiting", "resolved", "rejected"}
                   => ~parseThrows(raw) /\ columns[a] = cols /\ data[a] = rows
            /\ pc[a] = "resolved"
                   => /\ ~analysisThrows(cols, rows, raw)
                      /\ result[a] = <<analysisResult(cols, rows, raw)>>
            /\ pc[a] = "rejected"
                   => analysisThrows(cols, rows, raw) /\ result[a] = <<>>

C8_Witness ==
    /\ Resolved("a1") /\ Resolved("a2")
    /\ rawData["a1"] # rawData["a2"]
    /\ columns["a1"] # columns["a2"]
    /\ result["a1"] # result["a2"]

SameRowsInSomeOrder(s, t) ==
    /\ Len(s) = Len(t)
    /\ \A x \in Range(s) \cup Range(t) :
           Cardinality({i \in DOMAIN s : s[i] = x}) = Cardinality({i \in DOMAIN t : t[i] = x})

(* C10: permuting the data rows of an input changes no ColumnInfo of any   *)
(* column (type, uniqueValues, nullCount, isBusinessRelevant, businessType).*)
C10_RowOrderDoesNotChangeColumnInfo ==
    \A a, b \in Analyzers :
        (/\ Resolved(a) /\ Resolved(b)
         /\ columns[a] = columns[b]
         /\ SameRowsInSomeOrder(data[a], data[b]))
            => result[a][1].overview.columns = result[b][1].overview.columns

C10_Witness ==
    /\ Resolved("a1") /\ Resolved("a2")
    /\ columns["a1"] = columns["a2"]
    /\ data["a1"] # data["a2"]
    /\ data["a1"][1] # data["a2"][1]
    /\ SameRowsInSomeOrder(data["a1"], data["a2"])
    /\ result["a1"][1].overview.columns[1].uniqueValues = 3

(***************************************************************************)
(* Properties of the column classifier, the tokenizer and the aggregates.  *)
(***************************************************************************)
(* the columns of a resolved analysis, by position *)
infoOf(a, k) == result[a][1].overview.columns[k]

keywordOf(a, k) == LeadingKeyword(toLowerCase(columns[a][k]))

(* C11: the role follows the name first: a revenue prefix gives revenue    *)
(* whatever the values, else a customer prefix gives customer, else a date *)
(* prefix gives date; category and quantity are given only to names that   *)
(* match no prefix, so a revenue-named column is never a quantity.         *)
C11_NameRoleBeforeStatisticalRole ==
    \A a \in Analyzers :
        Resolved(a) =>
            \A k \in DOMAIN columns[a] :
                LET kw == keywordOf(a, k)
                    role == infoOf(a, k).businessType
                IN  /\ kw \in RevenuePrefixes => role = "revenue"
                    /\ (kw \notin RevenuePrefixes /\ kw \in CustomerPrefixes)
                           => role = "customer"
                    /\ (kw \notin RevenuePrefixes \cup CustomerPrefixes /\ kw \in DatePrefixes)
                           => role = "date"
                    /\ role \in {"category", "quantity"}
                           => kw \notin RevenuePrefixes \cup CustomerPrefixes \cup DatePrefixes

C11_Witness ==
    \E a \in Analyzers :
        /\ Resolved(a)
        /\ columns[a] = <<"amount">>
        /\ infoOf(a, 1).type = "numeric"
        /\ infoOf(a, 1).uniqueValues = 2
        /\ infoOf(a, 1).businessType = "revenue"

metricsNamed(a, label) == SelectSeq(result[a][1].metrics, LAMBDA m : m.label = label)

(* the rows whose cell under `name` is a number: not empty and a finite    *)
(* decimal number as a whole                                               *)
numericCellsOf(a, name) ==
    {r \in DOMAIN data[a] :
        LET v == data[a][r][name]
        IN  v # "" /\ ~isNaN(parseFloat(v)) /\ isFinite(v)}

numericSumOf(a, name) ==
    SumSeq([r \in DOMAIN data[a] |->
               IF r \in numericCellsOf(a, name) THEN parseFloat(data[a][r][name])[1] ELSE 0])

(* C12: with a revenue column, Total Revenue is the sum of the numeric     *)
(* cells of the first revenue column and Average Order Value is that sum   *)
(* divided by the number of numeric cells; a cell that is no number adds   *)
(* nothing to the sum and is not counted.                                  *)
C12_RevenueTotalsOverNumericCells ==
    \A a \in Analyzers :
        (Resolved(a) /\ revenueNameOf(a) # <<>>)
            => LET name == revenueNameOf(a)[1]
                   total == metricsNamed(a, "Total Revenue")
                   average == metricsNamed(a, "Average Order Value")
                   count == Cardinality(numericCellsOf(a, name))
               IN  /\ Len(total) = 1
                   /\ total[1].value = Num(numericSumOf(a, name))
                   /\ Len(average) = 1
                   /\ count > 0 => average[1].value = Ratio(numericSumOf(a, name), count)

Parsed(a) == pc[a] \in {"constructed", "awaiting", "resolved", "rejected"}

(* the commas of a line that have an even number of quote characters before them *)
separatorsOf(line) ==
    {i \in DOMAIN line :
        line[i] = COMMA /\ Cardinality({j \in 1..(i - 1) : line[j] = QUOTE}) % 2 = 0}

(* the position of the k-th separator; 0 before the first field, past the end after the last *)
separatorAt(line, k) ==
    IF k = 0 THEN 0
    ELSE IF k > Cardinality(separatorsOf(line)) THEN Len(line) + 1
    ELSE CHOOSE i \in separatorsOf(line) :
             Cardinality({j \in separatorsOf(line) : j < i}) = k - 1

(* what stands between two separators, without its quote characters and trimmed *)
fieldBetween(line, k) ==
    Join(Trim(StripQuotes(SubSeq(line, separatorAt(line, k - 1) + 1, separatorAt(line, k) - 1))))

(* the cell a data line gives to column position k; a line with too few fields gives "" *)
cellOfLine(line, k) ==
    IF k <= Cardinality(separatorsOf(line)) + 1 THEN fieldBetween(line, k) ELSE ""

LastOfItsName(cols, k) == \A j \in DOMAIN cols : cols[j] = cols[k] => j <= k

(* C13: a data line is split into fields at the commas outside double      *)
(* quotes and nowhere else, so a quoted field with a comma is one field;   *)
(* every field is trimmed and has its quote characters removed.            *)
C13_FieldsSplitAtUnquotedCommas ==
    \A a \in Analyzers :
        Parsed(a) =>
            /\ Len(data[a]) = Len(Lines(rawData[a])) - 1
            /\ \A r \in DOMAIN data[a] : \A k \in DOMAIN columns[a] :
                   LastOfItsName(columns[a], k)
                       => data[a][r][columns[a][k]] = cellOfLine(Lines(rawData[a])[r + 1], k)

C13_Witness ==
    \E a \in Analyzers :
        /\ Resolved(a)
        /\ columns[a] = <<"city", "amount">>
        /\ CountOf(rawData[a], QUOTE) = 2
        /\ data[a][1]["city"] = "New York, NY"
        /\ data[a][1]["amount"] = "10"

insightsOf(a) == Range(result[a][1].insights)

(* the cells of column position k are all non-empty and pairwise distinct *)
AllDistinctNonEmpty(a, k) ==
    \A r \in DOMAIN data[a] :
        /\ data[a][r][columns[a][k]] # ""
        /\ \A q \in DOMAIN data[a] :
               data[a][q][columns[a][k]] = data[a][r][columns[a][k]] => q = r

cellsOf(a, k) == [r \in DOMAIN data[a] |-> data[a][r][columns[a][k]]]

(* at least 80% of n: count * 10 >= n * 8 *)
AtLeastShare(count, n) == count * NumericDen >= n * NumericNum

(* C15: a column is numeric exactly when at least 80% of its non-empty     *)
(* values are numeric, otherwise datetime exactly when at least 80% of     *)
(* them parse as dates, otherwise categorical; also at exactly 80% and     *)
(* for a column with no non-empty value.                                   *)
C15_TypeByEightyPercentShare ==
    \A a \in Analyzers :
        Resolved(a) =>
            \A k \in DOMAIN columns[a] :
                LET values == cellsOf(a, k)
                    n == Len(nonEmptyOf(values))
                    numeric == AtLeastShare(Len(numericOf(values)), n)
                    datetime == AtLeastShare(Len(dateOf(values)), n)
                IN  infoOf(a, k).type =
                        IF numeric THEN "numeric"
                        ELSE IF datetime THEN "datetime" ELSE "categorical"

chartsOf(a) == result[a][1].charts

(* the rows that add to a day of the time series: revenue cell parsed *)
summedDaysOf(a) ==
    LET tc == trendColumns(columns[a], data[a])
    IN  IF tc = <<>> THEN {}
        ELSE {DayKey(data[a][r][tc[1]]) : r \in parsedRowsOf(a, tc[2])}

(* C16: every chart of a result has at least one label and as many values  *)
(* as labels and is there only when it has data: no bar chart for a        *)
(* revenue column without a numeric cell, no line chart without a summed   *)
(* day, no chart that is empty or a placeholder.                           *)
C16_ChartsAreNonEmptyAndAligned ==
    \A a \in Analyzers :
        Resolved(a) =>
            \A i \in DOMAIN chartsOf(a) :
                LET chart == chartsOf(a)[i]
                IN  /\ Len(chart.labels) >= 1
                    /\ Len(chart.values) = Len(chart.labels)
                    /\ chart.type = "bar"
                           => /\ revenueNameOf(a) # <<>>
                              /\ parsedRowsOf(a, revenueNameOf(a)[1]) # {}
                              /\ "NaN-NaN" \notin Range(chart.labels)
                    /\ chart.type = "line" => summedDaysOf(a) # {}

(* the name of the column the category breakdown is made of, <<>> without one *)
categoryNameOf(a) ==
    LET categoryColumns ==
            SelectSeq(result[a][1].overview.columns,
                      LAMBDA col : col.type = "categorical" /\ col.uniqueValues < MaxCategoryUnique)
    IN  IF categoryColumns = <<>> THEN <<>> ELSE <<categoryColumns[1].name>>

firstRowOf(a, name, v) == MinOf({r \in DOMAIN data[a] : data[a][r][name] = v})

(* C17: in the category breakdown, entries with equal counts stand in the  *)
(* order in which their values were first met in the rows, for every kind  *)
(* of value, values that look like integers included.                      *)
C17_TiesInFirstEncounteredOrder ==
    \A a \in Analyzers :
        (Resolved(a) /\ categoryNameOf(a) # <<>>)
            => LET chart == chartsOfType(a, "doughnut")[1]
                   name == categoryNameOf(a)[1]
               IN  \A i, j \in DOMAIN chart.labels :
                       (i < j /\ chart.values[i] = chart.values[j])
                           => firstRowOf(a, name, chart.labels[i])
                                  < firstRowOf(a, name, chart.labels[j])

(* the ordered field values of data row r, one per column position *)
fieldsOfRow(a, r) ==
    [k \in DOMAIN columns[a] |-> cellOfLine(Lines(rawData[a])[r + 1], k)]

distinctRowsOf(a) == {fieldsOfRow(a, r) : r \in DOMAIN data[a]}

(* C18: duplicateRowCount is rowCount minus the number of distinct rows,   *)
(* two rows being the same exactly when their field values agree in every  *)
(* column position; also when the header repeats a column name.            *)
C18_DuplicateRowsByPosition ==
    \A a \in Analyzers :
        Resolved(a)
            => result[a][1].overview.duplicateRows
                   = result[a][1].overview.totalRows - Cardinality(distinctRowsOf(a))

(* C19: role category is given only to a categorical column whose distinct *)
(* non-empty values are fewer than 50% of its non-empty values, role       *)
(* quantity only to a numeric column, and a datetime column whose name     *)
(* matches no prefix has no role.                                          *)
C19_StatisticalRolesFollowType ==
    \A a \in Analyzers :
        Resolved(a) =>
            \A k \in DOMAIN columns[a] :
                LET info == infoOf(a, k)
                    nonEmpty == nonEmptyOf(cellsOf(a, k))
                IN  /\ info.businessType = "category"
                           => /\ info.type = "categorical"
                              /\ Cardinality(Range(nonEmpty)) * CategoryDen
                                     < Len(nonEmpty) * CategoryNum
                    /\ info.businessType = "quantity" => info.type = "numeric"
                    /\ (/\ info.type = "datetime"
                        /\ keywordOf(a, k)
                               \notin RevenuePrefixes \cup CustomerPrefixes \cup DatePrefixes)
                           => info.businessType = "undefined"

(* the number of empty cells of the parsed table, column by column *)
missingOf(a) ==
    SumSeq([k \in DOMAIN columns[a] |-> Cardinality(emptyCellsOf(a, k))])

(* p is 100 * part / whole rounded to the nearest integer *)
IsNearestPercent(p, part, whole) ==
    /\ 2 * (p * whole - 100 * part) <= whole
    /\ 2 * (100 * part - p * whole) <= whole

(* C20: Data Completeness is emitted exactly when there are missing        *)
(* values; its value is 100 * (rows * columns - missing) / (rows * columns)*)
(* rounded to the nearest integer, and its trend is down exactly when the  *)
(* missing values exceed 10% of the row count, otherwise neutral.          *)
C20_DataCompletenessMetric ==
    \A a \in Analyzers :
        Resolved(a) =>
            LET metric == metricsNamed(a, "Data Completeness")
                missing == missingOf(a)
                cells == Len(data[a]) * Len(columns[a])
            IN  /\ Len(metric) = (IF missing > 0 THEN 1 ELSE 0)
                /\ missing > 0
                       => /\ metric[1].value.den = 1
                          /\ IsNearestPercent(metric[1].value.num, cells - missing, cells)
                          /\ metric[1].trend
                                 = (IF 10 * missing > Len(data[a]) THEN "down" ELSE "neutral")

C20_Witness ==
    \E a \in Analyzers :
        /\ Resolved(a)
        /\ Len(data[a]) = 3
        /\ missingOf(a) = 1
        /\ metricsNamed(a, "Data Completeness")[1].value = Num(67)
        /\ metricsNamed(a, "Data Completeness")[1].trend = "down"

C20_NeutralTrendReached ==
    \E a \in Analyzers :
        /\ Resolved(a)
        /\ missingOf(a) = 1
        /\ metricsNamed(a, "Data Completeness")[1].trend = "neutral"

(* the number of fields of a data line *)
fieldCountOf(line) == Cardinality(separatorsOf(line)) + 1

(* the rows whose line has no field at column position k *)
shortRowsOf(a, k) ==
    {r \in DOMAIN data[a] : fieldCountOf(Lines(rawData[a])[r + 1]) < k}

(* C21: every parsed row has a value for every column name; a line with    *)
(* fewer fields than the header gets "" at each missing position, that ""  *)
(* counts toward the column's nullCount, and parsing such a line does not  *)
(* fail.                                                                   *)
C21_ShortRowsArePadded ==
    \A a \in Analyzers :
        /\ (pc[a] # "none" /\ HasHeaderAndDataLine(rawData[a])) => Parsed(a)
        /\ Parsed(a) =>
               \A r \in DOMAIN data[a] :
                   /\ DOMAIN data[a][r] = Range(columns[a])
                   /\ \A k \in DOMAIN columns[a] :
                          (LastOfItsName(columns[a], k) /\ r \in shortRowsOf(a, k))
                              => data[a][r][columns[a][k]] = ""
        /\ Resolved(a) =>
               \A k \in DOMAIN columns[a] :
                   LastOfItsName(columns[a], k)
                       => /\ shortRowsOf(a, k) \subseteq emptyCellsOf(a, k)
                          /\ infoOf(a, k).nullCount >= Cardinality(shortRowsOf(a, k))

C21_Witness ==
    \E a \in Analyzers :
        /\ Resolved(a)
        /\ columns[a] = <<"amount", "when">>
        /\ Len(data[a]) = 2
        /\ shortRowsOf(a, 2) = {2}
        /\ data[a][2]["amount"] = "10"
        /\ data[a][2]["when"] = ""
        /\ infoOf(a, 2).nullCount = 1

(* C25: the analysis is synchronous computation: between its start and the *)
(* delivery of its result no step waits on a timer event.                  *)
C25_NoStepWaitsOnATimer == \A a \in Analyzers : pc[a] # "awaiting"

SeasonalityAdvice == "Analyze revenue trends over time to identify seasonal patterns"

(* C28: the recommendation to analyze revenue trends over time is in a     *)
(* result exactly when the revenue-trend line chart is in that result.     *)
C28_SeasonalityAdviceIffTrendChart ==
    \A a \in Analyzers :
        Resolved(a)
            => (SeasonalityAdvice \in Range(result[a][1].recommendations)
                    <=> Len(chartsOfType(a, "line")) > 0)

(* C29: the header is split by the quoting rule of the data rows: a quoted *)
(* header field with a comma is one column name, so the column count is    *)
(* the number of fields the row tokenizer produces for the header line.    *)
C29_HeaderSplitLikeDataRows ==
    \A a \in Analyzers :
        Parsed(a) => Len(columns[a]) = Len(parseCSVLine(Lines(rawData[a])[1]))

NameRoles == {"revenue", "customer", "date"}

(* C30 as stated: every column that has role revenue, customer or date     *)
(* from its name is flagged isBusinessRelevant.                            *)
C30_NameRoleImpliesRelevant ==
    \A a \in Analyzers :
        Resolved(a) =>
            \A k \in DOMAIN columns[a] :
                infoOf(a, k).businessType \in NameRoles => infoOf(a, k).isBusinessRelevant

(* C30: every column that has role customer or date from its name is       *)
(* flagged isBusinessRelevant, and a column that has role revenue from its *)
(* name is flagged exactly when its lower-cased name does not start with   *)
(* value.                                                                  *)
C30_NameRoleRelevantExceptValue ==
    \A a \in Analyzers :
        Resolved(a) =>
            \A k \in DOMAIN columns[a] :
                /\ infoOf(a, k).businessType \in {"customer", "date"}
                       => infoOf(a, k).isBusinessRelevant
                /\ infoOf(a, k).businessType = "revenue"
                       => (infoOf(a, k).isBusinessRelevant <=> keywordOf(a, k) # "value")

C30_Witness ==
    \E a \in Analyzers :
        /\ Resolved(a)
        /\ columns[a] = <<"customer_id", "amount">>
        /\ infoOf(a, 1).businessType = "customer" /\ infoOf(a, 1).isBusinessRelevant
        /\ infoOf(a, 2).businessType = "revenue" /\ infoOf(a, 2).isBusinessRelevant

(* C22: each part is computed from the parsed table only and leaves rows,  *)
(* column names and raw text unchanged, so the parts computed in any order *)
(* give the AnalysisResult that the order of the code gives.               *)
C22_PartsInAnyOrderSameResult ==
    \A a \in Analyzers :
        pc[a] \in {"computing", "resolved", "rejected"} =>
            LET raw == rawData[a]
                cols == parseHeader(raw)
                rows == parseRows(raw)
            IN  /\ columns[a] = cols
                /\ data[a] = rows
                /\ \A part \in PartNames :
                       computed[a][part] # <<>>
                           => computed[a][part] = <<partValue(part, cols, rows, raw)>>
                /\ pc[a] = "resolved" => result[a] = <<analysisResult(cols, rows, raw)>>
                /\ pc[a] = "rejected" => analysisThrows(cols, rows, raw)

C22_Witness ==
    \E a \in Analyzers :
        /\ pc[a] = "resolved"
        /\ \A part \in PartNames : computed[a][part] # <<>>
        /\ Len(data[a]) = 3
        /\ data[a][1] # data[a][3]
        /\ Len(result[a][1].charts) = 2
        /\ result[a] = <<analysisResult(columns[a], data[a], rawData[a])>>

(***************************************************************************)
(* Properties of the host.                                                 *)
(***************************************************************************)
(* the analysis of upload u fails in this step *)
FailsNow(u) == upload[u] # "failed" /\ upload'[u] = "failed"

(* C23: when the analysis of an uploaded file fails, App records that      *)
(* error's message, leaves the analysisResult it holds unchanged, clears   *)
(* the loading flag, and never retries the analysis of that file.          *)
C23_FailureIsRecordedOnce ==
    [][\A u \in Analyzers :
          /\ FailsNow(u)
                 => /\ appError' # <<>>
                    /\ pc'[u] \in {"threw", "rejected"} => appError' = error'[u]
                    /\ pc'[u] = "none" => appError' = <<ReadErrorMessage>>
                    /\ appAnalysisResult' = appAnalysisResult
                    /\ isLoading' = FALSE
          /\ upload[u] = "failed"
                 => /\ upload'[u] = "failed"
                    /\ pc'[u] = pc[u]
                    /\ rawData'[u] = rawData[u]
                    /\ u \notin Range(handOffs') \cup Range(analysisTimers')]_vars

C23_Witness ==
    \E u \in Analyzers :
        /\ upload[u] = "failed"
        /\ pc[u] = "rejected"
        /\ appError = <<InvalidTimeMessage>>
        /\ errorFrom = <<u>>
        /\ appAnalysisResult # <<>>
        /\ ~isLoading

(* a name that ends with .csv, whatever the case of its letters *)
CsvNames == {"a.csv", "b.CSV"}

Acceptable(f) == f.size <= 50 * 1024 * 1024 /\ f.name \in CsvNames

HandedOver(u) == upload[u] \in {"reading", "analyzing", "stored", "failed"}

C26_DashboardShowsItsOwnFile ==
    DashboardShown
        => /\ resultFrom # <<>>
           /\ uploadedFile # <<>>
           /\ uploadedFile[1].name = file[resultFrom[1]][1].name
           /\ appError # <<>> => errorFrom = resultFrom

(* an upload in the hands of handleFileUpload *)
InFlight(u) == upload[u] \in {"reading", "analyzing"}

SettledUpload(u) ==
    /\ ~isLoading
    /\ \/ upload[u] = "stored" /\ appAnalysisResult = result[u]
       \/ upload[u] = "failed" /\ appError # <<>>

(* C27: every upload handed to App eventually settles: the loading flag    *)
(* becomes false with that upload's result stored or an error message      *)
(* stored, and App is never left loading forever.                          *)
C27_EveryUploadSettles ==
    /\ \A u \in Analyzers : InFlight(u) ~> SettledUpload(u)
    /\ isLoading ~> ~isLoading

C27_Witness ==
    \E u, v \in Analyzers :
        /\ u # v
        /\ upload[u] = "stored" /\ upload[v] = "failed"
        /\ ~isLoading
        /\ handOffs = <<>> /\ analysisTimers = <<>>

====
